---- MODULE Spec2Model ----
(***************************************************************************)
(* HemeWeb job lifecycle: the two background tasks of jobs/models.py       *)
(* (run_setup, run_job), the durable Job record they persist, the per-job  *)
(* log files and the log cache of Job.get_output.                          *)
(*                                                                         *)
(* One job is modelled (jobs share no state).  A task execution works on   *)
(* the Job instance it was handed at enqueue time (run_job.delay(self)):   *)
(* a copy of the record, not the record itself.                            *)
(***************************************************************************)
EXTENDS Integers, Sequences, FiniteSets, TLC

(* ------------------------------ bounds -------------------------------- *)
MaxTasks == 2        \* task executions handed to the work queue
MaxLog == 1          \* chunks a command writes to one log file
MaxTicks == 2        \* clock advances
RecursionLimit == 3  \* interpreter frames before "maximum recursion depth exceeded"

(* ------------------------- program constants -------------------------- *)
ADDED == 1
QUEUED == 2
RUNNING == 10
DONE == 3
PREPROCESSING == 4
FAILED == 0
STATUS_CHOICES == {ADDED, QUEUED, RUNNING, DONE, FAILED, PREPROCESSING}

\* A status of an earlier schema ('Running postprocessing scripts'), no longer
\* among the choices.
LEGACY_POSTPROCESSING == 6

ShortTimeout == 5
LongTimeout == 5000

(* ------------------------------ strings ------------------------------- *)
\* A path is a sequence of characters.
EXT_STL == <<".", "s", "t", "l">>
EXT_XML == <<".", "x", "m", "l">>
EXT_GMY == <<".", "g", "m", "y">>
EXT_PR2 == <<".", "p", "r", "2">>
Empty == <<>>

\* str.replace(old, new): every non-overlapping occurrence, left to right.
RECURSIVE replace(_, _, _)
replace(s, old, new) ==
    IF Len(s) < Len(old) THEN s
    ELSE IF SubSeq(s, 1, Len(old)) = old
         THEN new \o replace(SubSeq(s, Len(old) + 1, Len(s)), old, new)
         ELSE <<Head(s)>> \o replace(Tail(s), old, new)

\* The base names X of the uploaded geometry file X.stl: plain, with ".stl"
\* in the base name, with ".stl" in a directory name.
StlBases ==
    { <<"a">>,
      <<"b">> \o EXT_STL,
      <<"d">> \o EXT_STL \o <<"/", "c">> }

(* ---------------------------- path resolver --------------------------- *)
\* get_result_extracted_directory_path calls itself before it joins anything:
\* the interpreter gives up at its recursion limit and raises.
RECURSIVE get_result_extracted_directory_path(_)
get_result_extracted_directory_path(depth) ==
    IF depth >= RecursionLimit THEN "RuntimeError"
    ELSE get_result_extracted_directory_path(depth + 1)

\* os.path.join of a directory and a name.
join(directory, name) == directory \o <<"/">> \o name

get_job_directory_path == join(<<"JOB_FILES_UPLOAD_DIR">>, <<"id.hex">>)
get_result_directory_path == join(get_job_directory_path, <<"result">>)
get_packaged_output_path == join(get_result_directory_path, <<"id", ".tar.gz">>)

(* ------------------------------- state -------------------------------- *)
Tasks == 1..MaxTasks
LogTypes == {"stdout", "hemelb"}   \* stderr is opened and written as stdout is
NoFile == "NoFile"
NoEntry == [content |-> "None", expiry |-> 0]
NoMiss == [time |-> 0, content |-> "None", status |-> ADDED]
NoCall == [log_type |-> "None", result |-> "None", hit |-> FALSE, prior |-> NoMiss]

VARIABLES
    db,        \* the persisted Job record
    base,      \* X, the base name of the uploaded geometry file
    prepared,  \* prepare_directories has run
    files,     \* log type -> NoFile or the chunks written (the writer of each)
    kind,      \* task -> "none" | "setup" | "run"
    pc,        \* task -> position in the task body
    args,      \* task -> the Job instance pickled at enqueue
    inst,      \* task -> job_instance, the worker's copy
    before,    \* task -> the stored record when the running setup execution began
    invoked,   \* task -> the commands of this execution: [stage, code]
    wrote,     \* task -> the statuses this execution persisted, in order
    lastWriter,\* the task execution that persisted status last (0: none)
    now,       \* the clock, in seconds
    ticks,     \* clock advances so far
    cache,     \* log type -> cache entry of key "<id>:log:<log type>"
    lastMiss,  \* log type -> the last cache miss of get_output
    lastCall,  \* the get_output call that has just returned: what it returned and
               \* the last miss before it (NoCall after any other step)
    packaged   \* how the package_output call that has just returned ended:
               \* "raised" | "saved" ("none" after any other step)

vars == <<db, base, prepared, files, kind, pc, args, inst, before, invoked, wrote,
          lastWriter, now, ticks, cache, lastMiss, lastCall, packaged>>

taskVars == <<kind, pc, args, inst, before, invoked, wrote>>
cacheVars == <<cache, lastMiss>>
clockVars == <<now, ticks>>

Artifacts == {"configuration_file", "input_file", "stl_file", "profile_file",
              "output_file"}

\* The fields a Job instance carries (created/updated are set by the store).
Instance(r) ==
    [status |-> r.status,
     configuration_file |-> r.configuration_file,
     input_file |-> r.input_file,
     stl_file |-> r.stl_file,
     profile_file |-> r.profile_file,
     output_file |-> r.output_file]

ExitCodes == {0, 1}

\* subprocess.call: the child is started, and later its exit code is returned.
Launch(history, stage) ==
    Append(history, [stage |-> stage, exited |-> FALSE, code |-> 0])
\* Mutant: the child's exit is not waited for.
Return_not_awaited(history, code) == history

Return(history, code) ==
    [history EXCEPT ![Len(history)] = [@ EXCEPT !.exited = TRUE, !.code = code]]

Init ==
    /\ base \in StlBases
    /\ db = [status |-> ADDED,
             configuration_file |-> Empty,
             input_file |-> Empty,
             stl_file |-> base \o EXT_STL,
             profile_file |-> base \o EXT_PR2,
             output_file |-> Empty,
             created |-> 0,
             updated |-> 0]
    /\ prepared = FALSE
    /\ files = [lt \in LogTypes |-> NoFile]
    /\ kind = [t \in Tasks |-> "none"]
    /\ pc = [t \in Tasks |-> "none"]
    /\ args = [t \in Tasks |-> Instance(db)]
    /\ inst = [t \in Tasks |-> Instance(db)]
    /\ before = [t \in Tasks |-> Instance(db)]
    /\ invoked = [t \in Tasks |-> <<>>]
    /\ wrote = [t \in Tasks |-> <<>>]
    /\ lastWriter = 0
    /\ now = 0
    /\ ticks = 0
    /\ cache = [lt \in LogTypes |-> NoEntry]
    /\ lastMiss = [lt \in LogTypes |-> NoMiss]
    /\ lastCall = NoCall
    /\ packaged = "none"

(* ------------------------------ the store ----------------------------- *)
\* Model.save(): every field of the instance; auto_now sets updated.
save(instance) ==
    [status |-> instance.status,
     configuration_file |-> instance.configuration_file,
     input_file |-> instance.input_file,
     stl_file |-> instance.stl_file,
     profile_file |-> instance.profile_file,
     output_file |-> instance.output_file,
     created |-> db.created,
     updated |-> now]

\* Model.save(update_fields=['status']): the status column and nothing else.
save_status(instance) == [db EXCEPT !.status = instance.status]

(* ------------------------------ enqueue ------------------------------- *)
\* enqueue_setup / enqueue_job: run_setup.delay(self), run_job.delay(self).
Enqueue(t, k) ==
    /\ kind[t] = "none"
    /\ \A u \in Tasks : u < t => kind[u] # "none"
    /\ kind' = [kind EXCEPT ![t] = k]
    /\ pc' = [pc EXCEPT ![t] = "queued"]
    /\ args' = [args EXCEPT ![t] = Instance(db)]
    /\ inst' = [inst EXCEPT ![t] = Instance(db)]
    /\ before' = [before EXCEPT ![t] = Instance(db)]
    /\ UNCHANGED <<db, base, prepared, files, invoked, wrote, lastWriter>>
    /\ UNCHANGED <<clockVars, cacheVars>>
    /\ lastCall' = NoCall
    /\ packaged' = "none"

\* prepare_directories: the log directory and its three empty log files.
prepare_directories ==
    /\ ~prepared
    /\ prepared' = TRUE
    /\ files' = [lt \in LogTypes |-> <<>>]
    /\ UNCHANGED <<db, base, taskVars, lastWriter, clockVars, cacheVars>>
    /\ lastCall' = NoCall
    /\ packaged' = "none"

(* ------------------------------ run_setup ----------------------------- *)
\* The setup tool is started on the instance's stl and profile files.
SetupLaunch(t) ==
    /\ kind[t] = "setup"
    /\ pc[t] = "queued"
    /\ pc' = [pc EXCEPT ![t] = "setup"]
    /\ invoked' = [invoked EXCEPT ![t] = Launch(@, "setup")]
    /\ before' = [before EXCEPT ![t] = Instance(db)]
    /\ UNCHANGED <<db, base, prepared, files, kind, args, inst, wrote, lastWriter>>
    /\ UNCHANGED <<clockVars, cacheVars>>
    /\ lastCall' = NoCall
    /\ packaged' = "none"

\* Mutant: a failed setup is given a status of the earlier schema.
setup_result_legacy(instance, completed) ==
    IF completed = 0
    THEN [instance EXCEPT
            !.configuration_file = replace(instance.stl_file, EXT_STL, EXT_XML),
            !.input_file = replace(instance.stl_file, EXT_STL, EXT_GMY),
            !.status = ADDED]
    ELSE [instance EXCEPT !.status = LEGACY_POSTPROCESSING]

\* The instance after the setup tool returned `completed`.
setup_result(instance, completed) ==
    IF completed = 0
    THEN [instance EXCEPT
            !.configuration_file = replace(instance.stl_file, EXT_STL, EXT_XML),
            !.input_file = replace(instance.stl_file, EXT_STL, EXT_GMY),
            !.status = ADDED]
    ELSE [instance EXCEPT !.status = FAILED]

\* The setup tool exits; the instance is saved in full.
SetupExit(t, completed) ==
    /\ kind[t] = "setup"
    /\ pc[t] = "setup"
    /\ LET job_instance == setup_result(inst[t], completed)
       IN /\ inst' = [inst EXCEPT ![t] = job_instance]
          /\ db' = save(job_instance)
          /\ wrote' = [wrote EXCEPT ![t] = Append(@, job_instance.status)]
    /\ invoked' = [invoked EXCEPT ![t] = Return(@, completed)]
    /\ lastWriter' = t
    /\ pc' = [pc EXCEPT ![t] = "done"]
    /\ before' = [before EXCEPT ![t] = args[t]]
    /\ UNCHANGED <<base, prepared, files, kind, args, clockVars, cacheVars>>
    /\ lastCall' = NoCall
    /\ packaged' = "none"

(* ------------------------------- run_job ------------------------------ *)
\* open(stdout, 'w'), open(stderr, 'w'): the file is created or truncated;
\* without the log directory open() raises IOError.
RunOpen(t) ==
    /\ kind[t] = "run"
    /\ pc[t] = "queued"
    /\ IF prepared
       THEN /\ files' = [files EXCEPT !["stdout"] = <<>>]
            /\ pc' = [pc EXCEPT ![t] = "opened"]
       ELSE /\ pc' = [pc EXCEPT ![t] = "raised"]
            /\ UNCHANGED files
    /\ UNCHANGED <<db, base, prepared, kind, args, inst, before, invoked, wrote, lastWriter>>
    /\ UNCHANGED <<clockVars, cacheVars>>
    /\ lastCall' = NoCall
    /\ packaged' = "none"

\* "Update the status first": RUNNING, saved with update_fields=['status'].
RunSetRunning(t) ==
    /\ kind[t] = "run"
    /\ pc[t] = "opened"
    /\ LET job_instance == [inst[t] EXCEPT !.status = RUNNING]
       IN /\ inst' = [inst EXCEPT ![t] = job_instance]
          /\ db' = save_status(job_instance)
    /\ wrote' = [wrote EXCEPT ![t] = Append(@, RUNNING)]
    /\ lastWriter' = t
    /\ pc' = [pc EXCEPT ![t] = "saved"]
    /\ UNCHANGED <<base, prepared, files, kind, args, before, invoked>>
    /\ UNCHANGED <<clockVars, cacheVars>>
    /\ lastCall' = NoCall
    /\ packaged' = "none"

\* Mutant: the provisioning command is started before the status is saved.
RunLaunch_before_save(t) ==
    /\ kind[t] = "run"
    /\ pc[t] = "opened"
    /\ pc' = [pc EXCEPT ![t] = "stage1"]
    /\ invoked' = [invoked EXCEPT ![t] = Launch(@, "stage1")]
    /\ UNCHANGED <<db, base, prepared, files, kind, args, inst, before, wrote, lastWriter>>
    /\ UNCHANGED <<clockVars, cacheVars>>
    /\ lastCall' = NoCall
    /\ packaged' = "none"

\* "Run long running job": the provisioning command is started.
RunLaunch(t) ==
    /\ kind[t] = "run"
    /\ pc[t] = "saved"
    /\ pc' = [pc EXCEPT ![t] = "stage1"]
    /\ invoked' = [invoked EXCEPT ![t] = Launch(@, "stage1")]
    /\ UNCHANGED <<db, base, prepared, files, kind, args, inst, before, wrote, lastWriter>>
    /\ UNCHANGED <<clockVars, cacheVars>>
    /\ lastCall' = NoCall
    /\ packaged' = "none"

\* The provisioning command writes to a log file of the job.
CommandOutput(t, lt) ==
    /\ kind[t] = "run"
    /\ pc[t] = "stage1"
    /\ files[lt] # NoFile
    /\ Len(files[lt]) < MaxLog
    /\ files' = [files EXCEPT ![lt] = Append(@, t)]
    /\ UNCHANGED <<db, base, prepared, taskVars, lastWriter, clockVars, cacheVars>>
    /\ lastCall' = NoCall
    /\ packaged' = "none"

\* Mutant: the stage 1 test inverted, as the conversion tests are.
stage1_failed_inverted(completed) == completed = 0

\* The tests the task makes on a command's exit code.
stage1_failed(completed) == completed # 0
conversion_failed(completed) == completed = 0

\* The task sets FAILED, saves the status and returns.
Fail(t) ==
    /\ LET job_instance == [inst[t] EXCEPT !.status = FAILED]
       IN /\ inst' = [inst EXCEPT ![t] = job_instance]
          /\ db' = save_status(job_instance)
    /\ wrote' = [wrote EXCEPT ![t] = Append(@, FAILED)]
    /\ lastWriter' = t
    /\ pc' = [pc EXCEPT ![t] = "done"]

\* The provisioning command exits: FAILED, or on to the VTU conversion.
Stage1Exit(t, completed) ==
    /\ kind[t] = "run"
    /\ pc[t] = "stage1"
    /\ IF stage1_failed(completed)
       THEN /\ Fail(t)
            /\ invoked' = [invoked EXCEPT ![t] = Return(@, completed)]
       ELSE /\ pc' = [pc EXCEPT ![t] = "stage2"]
            /\ invoked' = [invoked EXCEPT ![t] = Launch(Return(@, completed), "stage2")]
            /\ UNCHANGED <<db, inst, wrote, lastWriter>>
    /\ UNCHANGED <<base, prepared, files, kind, args, before, clockVars, cacheVars>>
    /\ lastCall' = NoCall
    /\ packaged' = "none"

\* A conversion command (stage 2 or 3) exits.  After stage 2 the stage 3 command
\* line is built, which needs get_result_extracted_directory_path(); after
\* stage 3 the job is DONE and saved in full.
ConversionExit(t, completed) ==
    /\ kind[t] = "run"
    /\ pc[t] \in {"stage2", "stage3"}
    /\ IF conversion_failed(completed)
       THEN /\ Fail(t)
            /\ invoked' = [invoked EXCEPT ![t] = Return(@, completed)]
       ELSE IF pc[t] = "stage2"
       THEN IF get_result_extracted_directory_path(0) = "RuntimeError"
            THEN /\ pc' = [pc EXCEPT ![t] = "raised"]
                 /\ invoked' = [invoked EXCEPT ![t] = Return(@, completed)]
                 /\ UNCHANGED <<db, inst, wrote, lastWriter>>
            ELSE /\ pc' = [pc EXCEPT ![t] = "stage3"]
                 /\ invoked' = [invoked EXCEPT ![t] =
                                    Launch(Return(@, completed), "stage3")]
                 /\ UNCHANGED <<db, inst, wrote, lastWriter>>
       ELSE LET job_instance == [inst[t] EXCEPT !.status = DONE]
            IN /\ inst' = [inst EXCEPT ![t] = job_instance]
               /\ db' = save(job_instance)
               /\ wrote' = [wrote EXCEPT ![t] = Append(@, DONE)]
               /\ lastWriter' = t
               /\ pc' = [pc EXCEPT ![t] = "done"]
               /\ invoked' = [invoked EXCEPT ![t] = Return(@, completed)]
    /\ UNCHANGED <<base, prepared, files, kind, args, before, clockVars, cacheVars>>
    /\ lastCall' = NoCall
    /\ packaged' = "none"

(* ----------------------------- the worker ----------------------------- *)
Executing == {"setup", "opened", "saved", "stage1", "stage2", "stage3"}
Ended == {"done", "raised", "killed"}

\* The worker is killed while it executes the task.
Kill(t) ==
    /\ pc[t] \in Executing
    /\ pc' = [pc EXCEPT ![t] = "killed"]
    /\ before' = [before EXCEPT ![t] = args[t]]
    /\ UNCHANGED <<db, base, prepared, files, kind, args, inst, invoked, wrote>>
    /\ UNCHANGED <<lastWriter, clockVars, cacheVars>>
    /\ lastCall' = NoCall
    /\ packaged' = "none"

\* The at-least-once queue delivers the task again: a new execution on the
\* instance pickled at enqueue.
Redeliver(t) ==
    /\ pc[t] \in Ended
    /\ pc' = [pc EXCEPT ![t] = "queued"]
    /\ inst' = [inst EXCEPT ![t] = args[t]]
    /\ invoked' = [invoked EXCEPT ![t] = <<>>]
    /\ wrote' = [wrote EXCEPT ![t] = <<>>]
    /\ lastWriter' = IF lastWriter = t THEN 0 ELSE lastWriter
    /\ before' = [before EXCEPT ![t] = args[t]]
    /\ UNCHANGED <<db, base, prepared, files, kind, args, clockVars, cacheVars>>
    /\ lastCall' = NoCall
    /\ packaged' = "none"

(* ------------------------------ the clock ----------------------------- *)
TickSteps == {1, ShortTimeout - 1, LongTimeout - 1}

Tick(d) ==
    /\ ticks < MaxTicks
    /\ now' = now + d
    /\ ticks' = ticks + 1
    /\ UNCHANGED <<db, base, prepared, files, taskVars, lastWriter, cacheVars>>
    /\ lastCall' = NoCall
    /\ packaged' = "none"

(* ----------------------------- get_output ----------------------------- *)
\* cache.get(key): the stored value, None once its timeout has passed.
cache_get(lt) ==
    IF cache[lt] # NoEntry /\ now < cache[lt].expiry THEN cache[lt].content
    ELSE "None"

\* Mutant: the short timeout whatever the status.
timeout_always_short(status) == ShortTimeout

\* The timeout get_output gives a new entry, by the job's status.
timeout(status) ==
    IF status # DONE /\ status # FAILED THEN ShortTimeout ELSE LongTimeout

\* Mutant: a missing log file is read as an empty one.
get_output_missing_as_empty(lt) ==
    /\ LET output == cache_get(lt)
           content == IF files[lt] = NoFile THEN <<>> ELSE files[lt]
           call(result, hit) == [log_type |-> lt, result |-> result, hit |-> hit,
                                 prior |-> lastMiss[lt]]
       IN IF output # "None"
          THEN /\ lastCall' = call(output, TRUE)
               /\ UNCHANGED <<cache, lastMiss>>
          ELSE /\ cache' = [cache EXCEPT ![lt] =
                               [content |-> content,
                                expiry |-> now + timeout(db.status)]]
               /\ lastMiss' = [lastMiss EXCEPT ![lt] =
                                  [time |-> now, content |-> content,
                                   status |-> db.status]]
               /\ lastCall' = call(content, FALSE)
    /\ UNCHANGED <<db, base, prepared, files, taskVars, lastWriter, clockVars>>
    /\ packaged' = "none"

\* get_output: the cached content, or the log file read in full and cached;
\* open() of a log file that does not exist raises IOError.
get_output(lt) ==
    /\ LET output == cache_get(lt)
           call(result, hit) == [log_type |-> lt, result |-> result, hit |-> hit,
                                 prior |-> lastMiss[lt]]
       IN IF output # "None"
          THEN /\ lastCall' = call(output, TRUE)
               /\ UNCHANGED <<cache, lastMiss>>
          ELSE IF files[lt] = NoFile
          THEN /\ lastCall' = call("IOError", FALSE)
               /\ UNCHANGED <<cache, lastMiss>>
          ELSE /\ cache' = [cache EXCEPT ![lt] =
                               [content |-> files[lt],
                                expiry |-> now + timeout(db.status)]]
               /\ lastMiss' = [lastMiss EXCEPT ![lt] =
                                  [time |-> now, content |-> files[lt],
                                   status |-> db.status]]
               /\ lastCall' = call(files[lt], FALSE)
    /\ UNCHANGED <<db, base, prepared, files, taskVars, lastWriter, clockVars>>
    /\ packaged' = "none"

(* --------------------------- package_output --------------------------- *)
\* The tar command line is built first, which needs
\* get_result_extracted_directory_path(); then tar runs, its exit code is
\* dropped, output_file is set on the instance and the instance saved in full.
package_output(completed) ==
    /\ IF get_result_extracted_directory_path(0) = "RuntimeError"
       THEN /\ packaged' = "raised"
            /\ UNCHANGED db
       ELSE /\ packaged' = "saved"
            /\ db' = save([Instance(db) EXCEPT
                              !.output_file = get_packaged_output_path])
    /\ lastCall' = NoCall
    /\ UNCHANGED <<base, prepared, files, taskVars, lastWriter, clockVars, cacheVars>>

(* --------------------------- specifications --------------------------- *)
\* The job lifecycle: the two tasks, the worker and the queue.
Next ==
    \/ \E t \in Tasks, k \in {"setup", "run"} : Enqueue(t, k)
    \/ prepare_directories
    \/ \E t \in Tasks : SetupLaunch(t)
    \/ \E t \in Tasks, c \in ExitCodes : SetupExit(t, c)
    \/ \E t \in Tasks : RunOpen(t)
    \/ \E t \in Tasks : RunSetRunning(t)
    \/ \E t \in Tasks : RunLaunch(t)
    \/ \E t \in Tasks, c \in ExitCodes : Stage1Exit(t, c)
    \/ \E t \in Tasks, c \in ExitCodes : ConversionExit(t, c)
    \/ \E t \in Tasks : Kill(t)
    \/ \E t \in Tasks : Redeliver(t)

Spec == Init /\ [][Next]_vars

\* Packaging: package_output calls between the steps of the two tasks, on
\* workers that are not killed.
NextPackage ==
    \/ \E t \in Tasks, k \in {"setup", "run"} : Enqueue(t, k)
    \/ prepare_directories
    \/ \E t \in Tasks : SetupLaunch(t)
    \/ \E t \in Tasks, c \in ExitCodes : SetupExit(t, c)
    \/ \E t \in Tasks : RunOpen(t)
    \/ \E t \in Tasks : RunSetRunning(t)
    \/ \E t \in Tasks : RunLaunch(t)
    \/ \E t \in Tasks, c \in ExitCodes : Stage1Exit(t, c)
    \/ \E t \in Tasks, c \in ExitCodes : ConversionExit(t, c)
    \/ \E t \in Tasks : Redeliver(t)
    \/ \E c \in ExitCodes : package_output(c)

SpecPackage == Init /\ [][NextPackage]_vars

\* The log cache: a run task, delivered any number of times, writes the logs
\* and the status; readers call get_output while the clock advances.  File
\* names play no part in it.
InitLog == Init /\ base = <<"a">>

NextLog ==
    \/ Enqueue(1, "run")
    \/ prepare_directories
    \/ \E t \in Tasks : RunOpen(t)
    \/ \E t \in Tasks : RunSetRunning(t)
    \/ \E t \in Tasks : RunLaunch(t)
    \/ \E t \in Tasks, lt \in LogTypes : CommandOutput(t, lt)
    \/ \E t \in Tasks, c \in ExitCodes : Stage1Exit(t, c)
    \/ \E t \in Tasks, c \in ExitCodes : ConversionExit(t, c)
    \/ \E t \in Tasks : Redeliver(t)
    \/ \E d \in TickSteps : Tick(d)
    \/ \E lt \in LogTypes : get_output(lt)

SpecLog == InitLog /\ [][NextLog]_vars

(* ------------------------------- claims ------------------------------- *)
Last(seq) == seq[Len(seq)]
Terminal == {DONE, FAILED}
RunTasks == {t \in Tasks : kind[t] = "run"}
SetupTasks == {t \in Tasks : kind[t] = "setup"}
\* The commands of execution t that exited, and those that exited non-zero.
Exited(t) == {i \in 1..Len(invoked[t]) : invoked[t][i].exited}
ExitedNonZero(t) == {i \in Exited(t) : invoked[t][i].code # 0}

\* C1: once the persisted status is Done or Failed, no step of the setup task
\* or the run task (a re-delivery or a second enqueue included) changes it.
C1_TerminalStatusIsFinal ==
    [][db.status \in Terminal => db'.status = db.status]_vars

\* C2: a run task execution in which every stage command exits 0 ends with
\* Done as the status it persisted last.
C2_AllStagesZeroEndsDone ==
    \A t \in RunTasks :
        (/\ pc[t] \in {"done", "raised"}
         /\ invoked[t] # <<>>
         /\ Exited(t) = 1..Len(invoked[t])
         /\ ExitedNonZero(t) = {})
        => (wrote[t] # <<>> /\ Last(wrote[t]) = DONE)

\* C3: when stage 1 exits 0 and a conversion stage (2 or 3) exits non-zero, the
\* run task persists Failed and invokes no stage after the failing one.
C3_ConversionFailureEndsFailed ==
    \A t \in RunTasks :
        \A i \in ExitedNonZero(t) :
            invoked[t][i].stage \in {"stage2", "stage3"}
            => (/\ i = Len(invoked[t])
                /\ Last(wrote[t]) = FAILED)

\* C4: when the stage 1 command exits non-zero, the run task persists Failed
\* (the store holds Failed until another execution writes) and neither the
\* stage 2 nor the stage 3 command is invoked in that execution.
C4_Stage1FailureShortCircuits ==
    \A t \in RunTasks :
        (/\ invoked[t] # <<>>
         /\ invoked[t][1].exited
         /\ invoked[t][1].code # 0)
        => (/\ Len(invoked[t]) = 1
            /\ wrote[t] = <<RUNNING, FAILED>>
            /\ pc[t] = "done"
            /\ (lastWriter = t => db.status = FAILED))

C4_Witness ==
    \E t \in RunTasks :
        /\ invoked[t] = <<[stage |-> "stage1", exited |-> TRUE, code |-> 1]>>
        /\ pc[t] = "done"
        /\ lastWriter = t
        /\ db.status = FAILED

\* C5: Running is persisted before the stage 1 command is launched, and while
\* that command has been launched and its exit not yet handled (the worker
\* killed there included) the store holds Running, as long as no other task
\* execution has written the status since.
C5_RunningPersistedBeforeLaunch ==
    \A t \in RunTasks :
        /\ invoked[t] # <<>> => (wrote[t] # <<>> /\ wrote[t][1] = RUNNING)
        /\ (/\ Len(invoked[t]) = 1
            /\ ~invoked[t][1].exited
            /\ lastWriter = t)
           => db.status = RUNNING

C5_Witness ==
    \E t \in RunTasks :
        /\ pc[t] = "killed"
        /\ invoked[t] = <<[stage |-> "stage1", exited |-> FALSE, code |-> 0]>>
        /\ lastWriter = t
        /\ db.status = RUNNING

\* C7: whatever the stage commands' exit codes, a run task execution that set
\* the job Running and whose commands all exited ends without raising, with
\* Done or Failed as the status it persisted last.
C7_RunTaskEndsHandled ==
    \A t \in RunTasks :
        (/\ pc[t] \in {"done", "raised"}
         /\ wrote[t] # <<>>)
        => (/\ pc[t] = "done"
            /\ Last(wrote[t]) \in Terminal)

\* C8: when the setup tool exits non-zero, the setup task's save leaves Failed
\* in the store and every artifact field of the store as it was before the
\* execution began.
C8_SetupFailureKeepsArtifacts ==
    [][\A t \in SetupTasks :
          (/\ pc[t] = "setup"
           /\ pc'[t] = "done"
           /\ Last(invoked'[t]).code # 0)
          => (/\ db'.status = FAILED
              /\ \A f \in Artifacts : db'[f] = before[t][f])]_vars

\* C9: when the setup tool exits 0 for the stl path X.stl, the setup task's
\* save leaves Added, configuration_file X.xml and input_file X.gmy in the
\* store, for every base name X.
C9_SetupDerivesPaths ==
    [][\A t \in SetupTasks :
          (/\ pc[t] = "setup"
           /\ pc'[t] = "done"
           /\ Last(invoked'[t]).code = 0)
          => (/\ db'.status = ADDED
              /\ db'.configuration_file = base \o EXT_XML
              /\ db'.input_file = base \o EXT_GMY)]_vars

\* C10: a get_output call made less than TTL(S) seconds after the last cache
\* miss for its key returns the content C that miss read, whatever the log file
\* holds by then; TTL(S) is 5 s unless the status S at the miss was Done or
\* Failed, and 5000 s then.
TTL(S) == IF S \in Terminal THEN LongTimeout ELSE ShortTimeout

C10_CacheFreshnessWindow ==
    (/\ lastCall # NoCall
     /\ lastCall.prior # NoMiss
     /\ now < lastCall.prior.time + TTL(lastCall.prior.status))
    => lastCall.result = lastCall.prior.content

\* A hit late in the long window, after the log file changed.
C10_Witness ==
    /\ lastCall # NoCall
    /\ lastCall.hit
    /\ lastCall.prior.status = FAILED
    /\ now >= lastCall.prior.time + ShortTimeout
    /\ files[lastCall.log_type] # lastCall.result

\* C11: get_output on a log file that does not exist ends in an error, which
\* is not the empty content returned for an existing empty file, and leaves
\* the cache without an entry for the key.
C11_MissingLogIsAnError ==
    lastCall # NoCall =>
        LET lt == lastCall.log_type
        IN /\ files[lt] = NoFile
                => (lastCall.result = "IOError" /\ cache[lt] = NoEntry)
           /\ (files[lt] # NoFile /\ Len(files[lt]) = 0 /\ ~lastCall.hit)
                => (lastCall.result # "IOError" /\ Len(lastCall.result) = 0)

C11_Witness ==
    /\ lastCall # NoCall
    /\ files[lastCall.log_type] = NoFile
    /\ lastCall.result = "IOError"
    /\ cache[lastCall.log_type] = NoEntry

\* C12: a status write of the setup task or the run task leaves in the store
\* every artifact value that another writer stored after the execution
\* received its copy of the job.
C12_StatusWriteKeepsArtifacts ==
    [][\A t \in Tasks :
          wrote'[t] # wrote[t] /\ wrote'[t] # <<>>
          => \A f \in Artifacts :
                db[f] # args[t][f] => db'[f] = db[f]]_vars

\* C13: every change of the persisted status is an edge of the transition
\* table.
Edges ==
    { <<ADDED, PREPROCESSING>>, <<PREPROCESSING, ADDED>>,
      <<PREPROCESSING, FAILED>>, <<ADDED, QUEUED>>, <<PREPROCESSING, QUEUED>>,
      <<QUEUED, RUNNING>>, <<RUNNING, DONE>>, <<RUNNING, FAILED>> }

C13_StatusFollowsTransitionTable ==
    [][db'.status # db.status => <<db.status, db'.status>> \in Edges]_vars

\* C14: after any sequence of setup task, run task and packaging steps the
\* persisted status is one of the six values of the enumeration.
C14_StatusInEnumeration == db.status \in STATUS_CHOICES

\* A packaging call on a job that a setup and a run execution have written.
C14_Witness ==
    /\ packaged # "none"
    /\ db.status = FAILED
    /\ \E t \in SetupTasks : wrote[t] # <<>>
    /\ \E t \in RunTasks : wrote[t] # <<>>

\* C15: package_output runs the archiving command and, whatever its exit
\* code, ends without raising, with the packaged-output path persisted as the
\* job's output_file.
C15_PackageOutputRecordsArchive ==
    packaged # "none" =>
        (/\ packaged = "saved"
         /\ db.output_file = get_packaged_output_path)

\* C16: the log file of a cache entry stored with the long timeout is not
\* written or truncated after the read that filled the entry.
C16_LongTimeoutEntryIsFinal ==
    [][\A lt \in LogTypes :
          (/\ cache[lt] # NoEntry
           /\ cache[lt].expiry = lastMiss[lt].time + LongTimeout)
          => files'[lt] = files[lt]]_vars

\* C17: every persisted change of the job record, a status-only write
\* included, sets the persisted updated timestamp to the time of the write,
\* and leaves created as it was.
C17_MutationsAdvanceUpdated ==
    [][db' # db => (db'.updated = now /\ db'.created = db.created)]_vars

\* C18: in one execution of the run task the stage commands are invoked in the
\* order 1, 2, 3, each at most once, and a stage is started only after the
\* stage before it has exited.
StageOrder == <<"stage1", "stage2", "stage3">>

C18_StagesInOrder ==
    \A t \in RunTasks :
        /\ Len(invoked[t]) <= Len(StageOrder)
        /\ \A i \in 1..Len(invoked[t]) :
              /\ invoked[t][i].stage = StageOrder[i]
              /\ i < Len(invoked[t]) => invoked[t][i].exited

C18_Witness ==
    \E t \in RunTasks :
        /\ Len(invoked[t]) > 1
        /\ invoked[t][1].exited
        /\ Last(invoked[t]).stage = "stage2"

====
